---- MODULE Spec2Model ----
(***************************************************************************)
(* Model of lovelace_migrate.py: the conversion of a Home Assistant states *)
(* dump (a list of entity dicts) into a Lovelace UI document.              *)
(*                                                                         *)
(* Python values are tagged tuples, so that None, strings, booleans,       *)
(* lists and nodes can be told apart without comparing unlike values.      *)
(* A Python string is a sequence of tokens: a token is a word or one of    *)
(* the separators "." and "_" (and " " in display names).                  *)
(***************************************************************************)
EXTENDS Integers, Sequences, FiniteSets, TLC

VARIABLES
    states_json,   \* the input list of entity dicts (mutated in place)
    title,         \* the title argument of Lovelace.__init__
    pc,            \* position inside Lovelace.__init__
    all_entities,  \* build_entities: ordered dict entity_id -> record
    states,        \* build_states: ordered dict domain -> object_id -> record
    views,         \* Lovelace.__init__: the view groups still to be added
    doc,           \* self: the Lovelace document node
    error,         \* the exception that ended the conversion, or "none"
    log,           \* the messages given to _LOGGER.error
    node,          \* a node under direct manipulation (field ordering)
    first_set,     \* the keys of node in the order they were first set
    given_json,    \* the input list as it was before any conversion
    docs           \* the conversions made before this one: their documents

vars == <<states_json, title, pc, all_entities, states, views, doc, error,
          log, node, first_set, given_json, docs>>

(***************************************************************************)
(* Bounds                                                                  *)
(***************************************************************************)
MaxEntities == 3
MaxRefs == 2
MaxKeys == 4
MaxRuns == 2

(***************************************************************************)
(* Python values                                                           *)
(***************************************************************************)
None == <<"none">>
Str(s) == <<"str", s>>
Bool(b) == <<"bool", b>>
List(l) == <<"list", l>>
Obj(n) == <<"node", n>>

IsNone(v) == v[1] = "none"
IsList(v) == v[1] = "list"

\* Python truth value of a tagged value.
Truthy(v) ==
    CASE v[1] = "none" -> FALSE
      [] v[1] = "bool" -> v[2]
      [] v[1] = "str" -> Len(v[2]) > 0
      [] v[1] = "list" -> Len(v[2]) > 0
      [] OTHER -> TRUE

\* The index of the first occurrence of x in s, 0 when absent (list.index).
RECURSIVE IndexFrom(_, _, _)
IndexFrom(s, x, i) ==
    IF i > Len(s) THEN 0
    ELSE IF s[i] = x THEN i
    ELSE IndexFrom(s, x, i + 1)

Index(s, x) == IndexFrom(s, x, 1)

Contains(s, x) == \E i \in 1..Len(s) : s[i] = x

Remove(s, x) == SelectSeq(s, LAMBDA y : y # x)

\* dict: d[k] = v on a plain dict (a function from keys to values).
DictSet(d, k, v) ==
    IF k \in DOMAIN d THEN [d EXCEPT ![k] = v] ELSE (k :> v) @@ d

\* dict.get(k, default)
DictGet(d, k, default) == IF k \in DOMAIN d THEN d[k] ELSE default

(***************************************************************************)
(* Ordered dicts: the keys in insertion order and the value of each key.   *)
(***************************************************************************)
EmptyOD == [keys |-> <<>>, val |-> <<>>]

\* dict.update({k: v}) / d[k] = v on an insertion-ordered dict: an existing
\* key keeps its position.
ODSet(d, k, v) ==
    IF Contains(d.keys, k)
    THEN [d EXCEPT !.val = [d.val EXCEPT ![k] = v]]
    ELSE [d EXCEPT !.keys = Append(d.keys, k), !.val = (k :> v) @@ d.val]

ODHas(d, k) == Contains(d.keys, k)

ODGet(d, k, default) == IF ODHas(d, k) THEN d.val[k] ELSE default

ODDel(d, k) ==
    [d EXCEPT !.keys = Remove(d.keys, k),
              !.val = [x \in (DOMAIN d.val) \ {k} |-> d.val[x]]]

\* dict.values()
ODValues(d) == [i \in 1..Len(d.keys) |-> d.val[d.keys[i]]]

(***************************************************************************)
(* LovelaceBase: an OrderedDict with an optional key_order attribute       *)
(***************************************************************************)
DELIM == "..."

NewNode(cls) == [cls |-> cls, keys |-> <<>>, val |-> <<>>]

Reverse(s) == [i \in 1..Len(s) |-> s[Len(s) + 1 - i]]

\* OrderedDict.move_to_end(key, last)
move_to_end(keys, key, last) ==
    IF last THEN Append(Remove(keys, key), key)
    ELSE <<key>> \o Remove(keys, key)

\* The loop of sortkeys over enumerate(key_order), from position i on.
RECURSIVE sortkeys_loop(_, _, _, _)
sortkeys_loop(keys, key_order, mid, i) ==
    IF i > Len(key_order) THEN keys
    ELSE IF i = mid \/ ~Contains(keys, key_order[i])
         THEN sortkeys_loop(keys, key_order, mid, i + 1)
         ELSE sortkeys_loop(move_to_end(keys, key_order[i], i > mid),
                            key_order, mid, i + 1)

\* The front keys left in declared order.
ReverseFront_NotReversed(key_order, mid) == key_order

\* The front keys of key_order reversed, the rest as declared.
ReverseFront(key_order, mid) ==
    Reverse(SubSeq(key_order, 1, mid - 1))
        \o SubSeq(key_order, mid, Len(key_order))

\* LovelaceBase.sortkeys on the key sequence of a node. Positions are
\* 1-based here: mid is the position of the delimiter, or one past the end.
sortkeys(n) ==
    IF "key_order" \notin DOMAIN n THEN n
    ELSE LET ko == n.key_order
             mid == IF Contains(ko, DELIM) THEN Index(ko, DELIM)
                    ELSE Len(ko) + 1
         IN [n EXCEPT !.keys =
                sortkeys_loop(n.keys, ReverseFront(ko, mid), mid, 1)]

\* LovelaceBase.__setitem__
SetItem(n, key, value) ==
    LET sort == ~Contains(n.keys, key)
        n1 == IF sort
              THEN [n EXCEPT !.keys = Append(n.keys, key),
                             !.val = (key :> value) @@ n.val]
              ELSE [n EXCEPT !.val = [n.val EXCEPT ![key] = value]]
    IN IF sort THEN sortkeys(n1) ELSE n1

\* del self[key]
DelItem(n, key) ==
    [n EXCEPT !.keys = Remove(n.keys, key),
              !.val = [x \in (DOMAIN n.val) \ {key} |-> n.val[x]]]

\* self.update(kwargs): kwargs is a sequence of <<key, value>> pairs.
RECURSIVE UpdateKwargs(_, _)
UpdateKwargs(n, kwargs) ==
    IF kwargs = <<>> THEN n
    ELSE UpdateKwargs(SetItem(n, Head(kwargs)[1], Head(kwargs)[2]),
                      Tail(kwargs))

\* The loop of LovelaceBase.__init__ deleting the keys whose value is None.
RECURSIVE DropNone(_, _)
DropNone(n, ks) ==
    IF ks = <<>> THEN n
    ELSE DropNone(IF IsNone(n.val[Head(ks)]) THEN DelItem(n, Head(ks)) ELSE n,
                  Tail(ks))

\* LovelaceBase.__init__
BaseInit(n, kwargs) ==
    LET n1 == UpdateKwargs(n, kwargs)
    IN DropNone(n1, n1.keys)

\* LovelaceBase.add_item
add_item(n, key, item) ==
    IF IsNone(item) THEN n
    ELSE LET n1 == IF ~Contains(n.keys, key) THEN SetItem(n, key, List(<<>>))
                   ELSE n
             old == n1.val[key][2]
             new == IF IsList(item) THEN old \o item[2]
                    ELSE Append(old, item[2])
         IN [n1 EXCEPT !.val = [n1.val EXCEPT ![key] = List(new)]]

(***************************************************************************)
(* The node classes: their key_order and, for cards, their type            *)
(***************************************************************************)
KEY_ORDER ==
    [Lovelace |-> <<"title", "resources", "excluded_entities", "...",
                    "views">>,
     View |-> <<"title", "id", "icon", "panel", "theme", "...", "cards">>,
     Entity |-> <<"entity", "name">>,
     Resource |-> <<"url", "type">>,
     EntitiesCard |-> <<"type", "title", "show_header_toggle", "...",
                        "entities">>,
     EntityFilterCard |-> <<"type", "entities", "state_filter", "card",
                            "show_empty">>,
     GlanceCard |-> <<"type", "title", "...", "entities">>,
     HistoryGraphCard |-> <<"type", "title", "hours_to_show",
                            "refresh_interval", "...", "entities">>,
     HorizontalStackCard |-> <<"type", "...", "cards">>,
     IframeCard |-> <<"type", "title", "url", "aspect_ratio">>,
     MapCard |-> <<"type", "title", "aspect_ratio", "...", "entities">>,
     MarkdownCard |-> <<"type", "title", "...", "content">>,
     MediaControlCard |-> <<"type", "entity">>,
     PictureCard |-> <<"type", "image", "navigation_path", "service",
                       "service_data">>,
     PictureElementsCard |-> <<"type", "title", "image", "elements">>,
     PictureEntityCard |-> <<"type", "title", "entity", "camera_image",
                             "image", "state_image", "show_info",
                             "tap_action">>,
     PictureGlanceCard |-> <<"type", "title", "...", "entities">>,
     PlantStatusCard |-> <<"type", "entity">>,
     VerticalStackCard |-> <<"type", "...", "cards">>,
     WeatherForecastCard |-> <<"type", "entity">>]

CARD_TYPE ==
    [EntitiesCard |-> "entities",
     EntityFilterCard |-> "entity-filter",
     GlanceCard |-> "glance",
     HistoryGraphCard |-> "history-graph",
     HorizontalStackCard |-> "horizontal-stack",
     IframeCard |-> "iframe",
     MapCard |-> "map",
     MarkdownCard |-> "markdown",
     MediaControlCard |-> "media-control",
     PictureCard |-> "picture",
     PictureElementsCard |-> "picture-elements",
     PictureEntityCard |-> "picture-entity",
     PictureGlanceCard |-> "picture-glance",
     PlantStatusCard |-> "plant-status",
     VerticalStackCard |-> "vertical-stack",
     WeatherForecastCard |-> "weather-forecast"]

\* Lovelace.CUSTOM_CARDS: the key_order of each known custom card.
CUSTOM_CARDS ==
    [monster_card |-> <<"type", "card", "filter", "when", "...">>]

\* self.key_order = ...
SetKeyOrder(n, ko) == [key_order |-> ko] @@ n

\* The __init__ of every card class: the type is set first, while the
\* instance has no key_order yet, then key_order, then LovelaceBase.__init__.
NewCard(cls, kwargs) ==
    BaseInit(SetKeyOrder(SetItem(NewNode(cls), "type",
                                 Str(<<CARD_TYPE[cls]>>)),
                         KEY_ORDER[cls]),
             kwargs)

\* Lovelace.View.__init__ and Lovelace.Entity.__init__
NewPlain(cls, kwargs) ==
    BaseInit(SetKeyOrder(NewNode(cls), KEY_ORDER[cls]), kwargs)

\* Lovelace.Resource.__init__: kwargs.setdefault('type', 'js')
NewResource(kwargs) ==
    LET kw == IF \E i \in 1..Len(kwargs) : kwargs[i][1] = "type" THEN kwargs
              ELSE Append(kwargs, <<"type", Str(<<"js">>)>>)
    IN BaseInit(SetKeyOrder(NewNode("Resource"), KEY_ORDER["Resource"]), kw)

\* Lovelace.CustomCard.__init__ with no key_order argument.
NewCustomCard(card_type, kwargs) ==
    LET ko == IF card_type \in DOMAIN CUSTOM_CARDS THEN CUSTOM_CARDS[card_type]
              ELSE <<"type", "...">>
    IN BaseInit(SetKeyOrder(SetItem(NewNode("CustomCard"), "type",
                                    Str(<<"custom:", card_type>>)),
                            ko),
                kwargs)

\* The new document starts from the fields of the document made before.
NewLovelace_KeepsFields(t) ==
    SetItem(doc, "title", IF Truthy(t) THEN t ELSE Str(<<"Home">>))

\* The first lines of Lovelace.__init__: key_order, LovelaceBase.__init__()
\* and self['title'] = title or "Home".
NewLovelace(t) ==
    SetItem(BaseInit(SetKeyOrder(NewNode("Lovelace"), KEY_ORDER["Lovelace"]),
                     <<>>),
            "title", IF Truthy(t) THEN t ELSE Str(<<"Home">>))

(***************************************************************************)
(* Strings                                                                 *)
(***************************************************************************)
\* str.split('.', 1): the pieces before and after the first "." token, or
\* the whole string alone when it holds none.
Split1(s) ==
    LET i == Index(s, ".")
    IN IF i = 0 THEN <<s>>
       ELSE <<SubSeq(s, 1, i - 1), SubSeq(s, i + 1, Len(s))>>

\* str.replace('_', ' ')
Replace(s) == [i \in 1..Len(s) |-> IF s[i] = "_" THEN " " ELSE s[i]]

\* The capitalised form of each word used in an identifier.
Capitalize ==
    [default |-> "Default", view |-> "View", attic |-> "Attic",
     barn |-> "Barn", front |-> "Front", kitchen |-> "Kitchen",
     a |-> "A", h |-> "H", nodot |-> "Nodot"]

\* str.title(): every word starts with a capital, separators stay.
Title(s) ==
    [i \in 1..Len(s) |->
        IF s[i] \in DOMAIN Capitalize THEN Capitalize[s[i]] ELSE s[i]]

(***************************************************************************)
(* Lovelace.build_entities and Lovelace.build_states                       *)
(***************************************************************************)
\* The loop of build_entities from record i on: each record gets its domain,
\* object_id and friendly_name and is entered in the registry. The registry
\* maps an entity_id to the position of its record in states_json, as the
\* Python dict holds the very record object of the input list.
RECURSIVE build_entities_loop(_, _, _)
build_entities_loop(sj, entities, i) ==
    IF i > Len(sj) THEN [sj |-> sj, entities |-> entities, error |-> "none"]
    ELSE LET e == sj[i]
             parts == Split1(e.entity_id)
         IN IF Len(parts) # 2
            THEN [sj |-> sj, entities |-> entities, error |-> "ValueError"]
            ELSE LET e1 == DictSet(DictSet(e, "domain", parts[1]),
                                   "object_id", parts[2])
                     name == DictGet(e1.attributes, "friendly_name",
                                     Str(Title(Replace(parts[2]))))
                     e2 == [e1 EXCEPT !.attributes =
                               DictSet(e1.attributes, "friendly_name", name)]
                 IN build_entities_loop([sj EXCEPT ![i] = e2],
                                        ODSet(entities, e.entity_id, i),
                                        i + 1)

build_entities(sj) == build_entities_loop(sj, EmptyOD, 1)

\* The inner loop of build_states: the members found in the registry.
RECURSIVE resolve_members(_, _, _)
resolve_members(members, entities, found) ==
    IF members = <<>> THEN found
    ELSE resolve_members(
            Tail(members), entities,
            IF ODHas(entities, Head(members))
            THEN ODSet(found, Head(members), entities.val[Head(members)])
            ELSE found)

\* The outer loop of build_states over all_entities.values(), from k on.
RECURSIVE build_states_loop(_, _, _, _)
build_states_loop(sj, entities, st, k) ==
    IF k > Len(entities.keys) THEN [sj |-> sj, states |-> st]
    ELSE LET i == entities.val[entities.keys[k]]
             e == sj[i]
             e1 == IF "entity_id" \in DOMAIN e.attributes
                   THEN DictSet(e, "entities",
                                resolve_members(e.attributes["entity_id"][2],
                                                entities, EmptyOD))
                   ELSE e
             st1 == IF ODHas(st, e.domain) THEN st
                    ELSE ODSet(st, e.domain, EmptyOD)
             st2 == ODSet(st1, e.domain,
                          ODSet(st1.val[e.domain], e.object_id, i))
         IN build_states_loop([sj EXCEPT ![i] = e1], entities, st2, k + 1)

build_states(sj) ==
    LET b == build_entities(sj)
    IN IF b.error # "none"
       THEN [sj |-> b.sj, entities |-> b.entities, states |-> EmptyOD,
             error |-> b.error]
       ELSE LET r == build_states_loop(b.sj, b.entities, EmptyOD, 1)
            IN [sj |-> r.sj, entities |-> b.entities, states |-> r.states,
                error |-> "none"]

(***************************************************************************)
(* Conversion of entities to cards and views                               *)
(***************************************************************************)
GROUP == <<"group">>

\* Lovelace.CARD_DOMAINS, in declaration order.
CARD_DOMAINS ==
    << <<(<<"camera">>), "PictureEntityCard">>,
       <<GROUP, "EntitiesCard">>,
       <<(<<"history", "_", "graph">>), "HistoryGraphCard">>,
       <<(<<"media", "_", "player">>), "MediaControlCard">>,
       <<(<<"plant">>), "PlantStatusCard">>,
       <<(<<"weather">>), "WeatherForecastCard">> >>

InCardDomains(domain) ==
    \E j \in 1..Len(CARD_DOMAINS) : CARD_DOMAINS[j][1] = domain

CardClassOf(domain) ==
    CARD_DOMAINS[CHOOSE j \in 1..Len(CARD_DOMAINS) :
                    CARD_DOMAINS[j][1] = domain][2]

\* The from_<domain>_config methods: the domain each class converts.
FROM_CONFIG ==
    [View |-> GROUP,
     EntitiesCard |-> GROUP,
     HistoryGraphCard |-> <<"history", "_", "graph">>,
     MediaControlCard |-> <<"media", "_", "player">>,
     PictureEntityCard |-> <<"camera">>,
     PlantStatusCard |-> <<"plant">>,
     WeatherForecastCard |-> <<"weather">>]

\* The outcome of a conversion call: the value returned, the messages
\* logged as errors, and the exception raised, if any.
Returns(v) == [ret |-> v, log |-> <<>>, error |-> "none"]
Raises(x) == [ret |-> None, log |-> <<>>, error |-> x]

\* group['attributes'].get('view', False)
IsView(e) == Truthy(DictGet(e.attributes, "view", Bool(FALSE)))

\* Lovelace.PictureEntityCard.from_camera_config
from_camera_config(config) ==
    Returns(Obj(NewCard("PictureEntityCard",
        << <<"title", DictGet(config.attributes, "friendly_name", None)>>,
           <<"entity", Str(config.entity_id)>>,
           <<"camera_image", Str(config.entity_id)>>,
           <<"show_info", Bool(TRUE)>>,
           <<"tap_action", Str(<<"dialog">>)>> >>)))

\* Lovelace.HistoryGraphCard.from_history_graph_config
from_history_graph_config(config) ==
    IF "entity_id" \notin DOMAIN config.attributes THEN Raises("KeyError")
    ELSE Returns(Obj(NewCard("HistoryGraphCard",
        << <<"title", DictGet(config.attributes, "friendly_name", None)>>,
           <<"hours_to_show",
             DictGet(config.attributes, "hours_to_show", None)>>,
           <<"refresh_interval",
             DictGet(config.attributes, "refresh", None)>>,
           <<"entities", config.attributes["entity_id"]>> >>)))

\* from_media_player_config, from_plant_config and from_weather_config
from_entity_config(cls, config) ==
    Returns(Obj(NewCard(cls, << <<"entity", Str(config.entity_id)>> >>)))

RECURSIVE Card_from_config(_, _)
RECURSIVE Base_from_config(_, _, _)
RECURSIVE member_loop(_, _, _)
RECURSIVE EntitiesCard_from_group_config(_, _)

\* The loop shared by View.from_group_config and
\* EntitiesCard.from_group_config over group['entities'].values(): the
\* cards of the members, and the identifiers of the members without a card.
member_loop(members, acc, stack) ==
    IF members = <<>> \/ acc.error # "none" THEN acc
    ELSE LET r == Card_from_config(Head(members), stack)
             card == r.ret
             acc1 == [acc EXCEPT !.log = acc.log \o r.log,
                                 !.error = r.error]
         IN member_loop(
              Tail(members),
              IF r.error # "none" THEN acc1
              ELSE IF IsList(card)
                   THEN [acc1 EXCEPT !.cards = acc.cards \o card[2]]
              ELSE IF ~IsNone(card)
                   THEN [acc1 EXCEPT !.cards = Append(acc.cards, card[2])]
              ELSE [acc1 EXCEPT !.nocards =
                       Append(acc.nocards,
                              states_json[Head(members)].entity_id)],
              stack)

\* group.get('entities', {}).values(): the records the group's members
\* resolved to, as positions in states_json.
GroupEntities(group) ==
    IF "entities" \in DOMAIN group THEN ODValues(group["entities"]) ELSE <<>>

NoCards == [cards |-> <<>>, nocards |-> <<>>, log |-> <<>>, error |-> "none"]

\* The primary card put after the cards of the members.
primary_and_cards_PrimaryLast(group, control, nocards, cards) ==
    IF Len(nocards) > 0
    THEN cards \o <<NewCard("EntitiesCard",
            << <<"title", DictGet(group.attributes, "friendly_name", None)>>,
               <<"show_header_toggle", Bool(control)>>,
               <<"entities", List(nocards)>> >>)>>
    ELSE cards

\* The end of EntitiesCard.from_group_config: with members that have no
\* card, the primary card listing them comes first; else the cards alone.
primary_and_cards(group, control, nocards, cards) ==
    IF Len(nocards) > 0
    THEN <<NewCard("EntitiesCard",
            << <<"title", DictGet(group.attributes, "friendly_name", None)>>,
               <<"show_header_toggle", Bool(control)>>,
               <<"entities", List(nocards)>> >>)>> \o cards
    ELSE cards

\* The entities card of the members without a card put after the cards.
nocards_first_NocardsLast(nocards, cards) ==
    IF Len(nocards) > 0
    THEN cards \o <<NewCard("EntitiesCard",
                            << <<"entities", List(nocards)>> >>)>>
    ELSE cards

\* if len(nocards): cards = [Lovelace.EntitiesCard(entities=nocards)] + cards
nocards_first(nocards, cards) ==
    IF Len(nocards) > 0
    THEN <<NewCard("EntitiesCard", << <<"entities", List(nocards)>> >>)>>
            \o cards
    ELSE cards

\* Lovelace.EntitiesCard.from_group_config. stack holds the groups whose
\* conversion is in progress: a group reached again from its own members is
\* converted again in the same way without end, until CPython gives up with
\* RecursionError.
EntitiesCard_from_group_config(i, stack) ==
    IF i \in stack THEN Raises("RecursionError")
    ELSE LET group == states_json[i]
             control == DictGet(group.attributes, "control", None)
                            # Str(<<"hidden">>)
             m == member_loop(GroupEntities(group), NoCards,
                              stack \cup {i})
         IN IF m.error # "none"
            THEN [ret |-> None, log |-> m.log, error |-> m.error]
            ELSE [ret |-> List(primary_and_cards(group, control, m.nocards,
                                                 m.cards)),
                  log |-> m.log, error |-> "none"]

\* Lovelace.View.from_group_config
View_from_group_config(i) ==
    LET group == states_json[i]
    IN IF ~IsView(group) THEN Returns(None)
       ELSE LET view == NewPlain("View",
                    << <<"title", DictGet(group.attributes,
                                          "friendly_name", None)>>,
                       <<"icon", DictGet(group.attributes, "icon", None)>> >>)
                m == member_loop(GroupEntities(group), NoCards, {})
                cards == nocards_first(m.nocards, m.cards)
            IN IF m.error # "none"
               THEN [ret |-> None, log |-> m.log, error |-> m.error]
               ELSE [ret |-> Obj(add_item(view, "cards", List(cards))),
                     log |-> m.log, error |-> "none"]

\* LovelaceBase.from_config for the class cls: the method
\* from_<domain>_config of cls is looked up and called.
Base_from_config(cls, i, stack) ==
    LET config == states_json[i]
    IN IF "entity_id" \notin DOMAIN config
       THEN [ret |-> None, error |-> "none",
             log |-> <<(<<"Invalid config for conversion to", cls>>)>>]
       ELSE LET parts == Split1(config.entity_id)
            IN IF Len(parts) # 2 THEN Raises("ValueError")
               ELSE IF cls \notin DOMAIN FROM_CONFIG
                       \/ FROM_CONFIG[cls] # parts[1]
               THEN [ret |-> None, error |-> "none",
                     log |-> <<(<<"Class does not support conversion from",
                                  cls, parts[1]>>)>>]
               ELSE CASE cls = "View" -> View_from_group_config(i)
                      [] cls = "EntitiesCard" ->
                            EntitiesCard_from_group_config(i, stack)
                      [] cls = "HistoryGraphCard" ->
                            from_history_graph_config(config)
                      [] cls = "PictureEntityCard" ->
                            from_camera_config(config)
                      [] OTHER -> from_entity_config(cls, config)

\* Lovelace.Card.from_config called on Lovelace.Card itself.
Card_from_config(i, stack) ==
    LET domain == states_json[i]["domain"]
    IN IF InCardDomains(domain)
       THEN Base_from_config(CardClassOf(domain), i, stack)
       ELSE Returns(None)

(***************************************************************************)
(* The inputs                                                              *)
(***************************************************************************)
DEFAULT_VIEW == <<"group", ".", "default", "_", "view">>
ATTIC == <<"group", ".", "attic">>
BARN == <<"group", ".", "barn">>
CAMERA == <<"camera", ".", "front">>
GRAPH == <<"history", "_", "graph", ".", "h">>
LIGHT == <<"light", ".", "kitchen">>
SWITCH == <<"switch", ".", "a">>
GHOST == <<"sensor", ".", "ghost">>
NODOT == <<"nodot">>

Entity(id, attrs) ==
    [entity_id |-> id, state |-> Str(<<"on">>), attributes |-> attrs]

GroupIds == {DEFAULT_VIEW, ATTIC, BARN}

SeqsUpTo(S, n) == UNION {[1..k -> S] : k \in 0..n}

\* The attribute mappings tried for the record of an identifier, listing at
\* most budget of the identifiers in members.
AttributeChoices(id, budget, malformed, members) ==
    CASE id \in GroupIds ->
            {[entity_id |-> List(m)] : m \in SeqsUpTo(members, budget)}
            \cup {[entity_id |-> List(m), view |-> Bool(TRUE)] :
                     m \in SeqsUpTo(members, budget)}
      [] id = GRAPH ->
            {[entity_id |-> List(m)] : m \in SeqsUpTo(members, budget)}
            \cup (IF malformed THEN {<<>>} ELSE {})
      [] OTHER -> {<<>>}

Refs(attrs) ==
    IF "entity_id" \in DOMAIN attrs THEN Len(attrs["entity_id"][2]) ELSE 0

\* The lists of records with the identifiers ids, in that order, that list
\* at most budget members altogether.
RECURSIVE Records(_, _, _, _)
Records(ids, budget, malformed, members) ==
    IF ids = <<>> THEN {<<>>}
    ELSE UNION {
            {<<Entity(Head(ids), attrs)>> \o rest :
                rest \in Records(Tail(ids), budget - Refs(attrs), malformed,
                                 members)} :
            attrs \in AttributeChoices(Head(ids), budget, malformed, members)}

\* A member is the identifier of a record of the input, or GHOST, which is
\* the identifier of no record.
Members(ids) == {ids[i] : i \in 1..Len(ids)} \cup {GHOST}

\* The records of the other domains come in this order; groups, the one
\* domain holding several records, come after them in every order.
OtherIds(malformed) ==
    IF malformed THEN <<CAMERA, GRAPH, LIGHT, SWITCH, NODOT>>
    ELSE <<CAMERA, GRAPH, LIGHT, SWITCH>>

SubSeqOf(s, picked) == SelectSeq(s, LAMBDA x : x \in picked)

GroupOrders ==
    {g \in SeqsUpTo(GroupIds, Cardinality(GroupIds)) :
        \A i, j \in 1..Len(g) : i # j => g[i] # g[j]}

IdLists(malformed) ==
    {ids \in {SubSeqOf(OtherIds(malformed), picked) \o g :
                 picked \in SUBSET {OtherIds(malformed)[i] :
                                       i \in 1..Len(OtherIds(malformed))},
                 g \in GroupOrders} :
        Len(ids) <= MaxEntities}

Titles == {None}

(***************************************************************************)
(* Lovelace.__init__                                                       *)
(***************************************************************************)
NoNode == NewNode("None")

\* The inputs: with malformed, a record may lack the "." of its identifier
\* and a history_graph its entity_id list.
InitWith(malformed) ==
    /\ \E ids \in IdLists(malformed) :
          states_json \in Records(ids, MaxRefs, malformed, Members(ids))
    /\ title \in Titles
    /\ pc = "start"
    /\ all_entities = EmptyOD
    /\ states = EmptyOD
    /\ views = EmptyOD
    /\ doc = NewNode("Lovelace")
    /\ error = "none"
    /\ log = <<>>
    /\ node = NoNode
    /\ first_set = <<>>
    /\ given_json = states_json
    /\ docs = <<>>

Init == InitWith(FALSE)

InitMalformed == InitWith(TRUE)

\* The view groups selected in the reverse of their order in groups.
RECURSIVE SelectViews_Reversed(_, _, _)
SelectViews_Reversed(sj, groups, k) ==
    IF k > Len(groups.keys) THEN EmptyOD
    ELSE LET key == groups.keys[k]
             rest == SelectViews_Reversed(sj, groups, k + 1)
         IN IF IsView(sj[groups.val[key]])
            THEN [keys |-> rest.keys \o <<key>>,
                  val |-> (key :> groups.val[key]) @@ rest.val]
            ELSE rest

\* views = {k: v for k, v in groups.items() if v['attributes'].get('view')}
RECURSIVE SelectViews(_, _, _)
SelectViews(sj, groups, k) ==
    IF k > Len(groups.keys) THEN EmptyOD
    ELSE LET key == groups.keys[k]
             rest == SelectViews(sj, groups, k + 1)
         IN IF IsView(sj[groups.val[key]])
            THEN [keys |-> <<key>> \o rest.keys,
                  val |-> (key :> groups.val[key]) @@ rest.val]
            ELSE rest

\* Another group taken for the default view.
DEFAULT_VIEW_KEY_Attic == <<"attic">>

\* The key 'default_view' looked up in views.
DEFAULT_VIEW_KEY == <<"default", "_", "view">>

\* The start of Lovelace.__init__: the document gets its title, the
\* registry is built and the view groups are selected.
Start ==
    /\ pc = "start"
    /\ \E b \in {build_states(states_json)} :
          /\ states_json' = b.sj
          /\ all_entities' = b.entities
          /\ states' = b.states
          /\ error' = b.error
          /\ pc' = IF b.error = "none" THEN "views" ELSE "raised"
          /\ views' = IF b.error = "none"
                      THEN SelectViews(b.sj, ODGet(b.states, GROUP, EmptyOD),
                                       1)
                      ELSE EmptyOD
    /\ doc' = NewLovelace(title)
    /\ UNCHANGED <<title, log, node, first_set, given_json, docs>>

\* The outcome r of a conversion is taken into the document under key, or
\* ends the conversion when it raised.
Adopt(r, next_pc) ==
    /\ log' = log \o r.log
    /\ error' = r.error
    /\ pc' = IF r.error = "none" THEN next_pc ELSE "raised"
    /\ doc' = IF r.error = "none" THEN add_item(doc, "views", r.ret) ELSE doc

\* if 'default_view' in views: the default view is added first.
DefaultView ==
    /\ pc = "views"
    /\ ODHas(views, DEFAULT_VIEW_KEY)
    /\ Adopt(Base_from_config("View", views.val[DEFAULT_VIEW_KEY], {}),
             "rest")
    /\ views' = ODDel(views, DEFAULT_VIEW_KEY)
    /\ UNCHANGED <<states_json, title, all_entities, states, node, first_set,
                   given_json, docs>>

\* states.get(domain, {}).values() for each domain of CARD_DOMAINS in turn.
RECURSIVE HomeCandidates(_, _)
HomeCandidates(st, j) ==
    IF j > Len(CARD_DOMAINS) THEN <<>>
    ELSE ODValues(ODGet(st, CARD_DOMAINS[j][1], EmptyOD))
            \o HomeCandidates(st, j + 1)

\* The loops building the Home view: every entity of a card domain that is
\* not a view group gives its cards to the view.
RECURSIVE home_loop(_, _)
home_loop(candidates, acc) ==
    IF candidates = <<>> \/ acc.error # "none" THEN acc
    ELSE LET i == Head(candidates)
             e == states_json[i]
         IN IF e["domain"] = GROUP /\ IsView(e)
            THEN home_loop(Tail(candidates), acc)
            ELSE LET r == Card_from_config(i, {})
                 IN home_loop(
                      Tail(candidates),
                      [ret |-> IF r.error = "none"
                               THEN Obj(add_item(acc.ret[2], "cards", r.ret))
                               ELSE acc.ret,
                       log |-> acc.log \o r.log,
                       error |-> r.error])

\* The Home view added whether or not it has cards.
home_view_item_Always(view) == Obj(view)

\* if view.get('cards') is not None: self.add_view(view)
home_view_item(view) ==
    IF Contains(view.keys, "cards") THEN Obj(view) ELSE None

\* else: the Home view is built and added if it has a cards field.
HomeView ==
    /\ pc = "views"
    /\ ~ODHas(views, DEFAULT_VIEW_KEY)
    /\ LET view == NewPlain("View", << <<"title", Str(<<"Home">>)>> >>)
           r == home_loop(HomeCandidates(states, 1), Returns(Obj(view)))
       IN Adopt(IF r.error = "none"
                THEN [r EXCEPT !.ret = home_view_item(r.ret[2])] ELSE r,
                "rest")
    /\ UNCHANGED <<states_json, title, all_entities, states, views, node,
                   first_set, given_json, docs>>

\* for view in views.values(): the next remaining view group is added.
AddView ==
    /\ pc = "rest"
    /\ Len(views.keys) > 0
    /\ Adopt(Base_from_config("View", views.val[Head(views.keys)], {}),
             "rest")
    /\ views' = ODDel(views, Head(views.keys))
    /\ UNCHANGED <<states_json, title, all_entities, states, node, first_set,
                   given_json, docs>>

\* Lovelace.__init__ returns.
Finish ==
    /\ pc = "rest"
    /\ Len(views.keys) = 0
    /\ pc' = "done"
    /\ UNCHANGED <<states_json, title, all_entities, states, views, doc,
                   error, log, node, first_set, given_json, docs>>

Next == Start \/ DefaultView \/ HomeView \/ AddView \/ Finish

Spec == Init /\ [][Next]_vars

SpecMalformed == InitMalformed /\ [][Next]_vars

(***************************************************************************)
(* What the claims speak of                                                *)
(***************************************************************************)
\* The registry has been built and the conversion has not raised.
Built == pc \in {"views", "rest", "done"}

Positions == 1..Len(states_json)

WellFormedId(e) == Len(Split1(e.entity_id)) = 2

\* The prefix of the identifier before the separator.
DomainOf(e) == Split1(e.entity_id)[1]

IsGroup(e) == WellFormedId(e) /\ DomainOf(e) = GROUP

ViewFlagged(e) ==
    /\ IsGroup(e)
    /\ "view" \in DOMAIN e.attributes
    /\ e.attributes["view"] = Bool(TRUE)

\* The entity_id list of a group or history_graph.
MemberList(e) ==
    IF "entity_id" \in DOMAIN e.attributes THEN e.attributes["entity_id"][2]
    ELSE <<>>

InInput(id) == \E i \in Positions : states_json[i].entity_id = id

PositionOf(id) == CHOOSE i \in Positions : states_json[i].entity_id = id

\* The members of e found in the input, each once, in encounter order.
EncounteredMembers(e) ==
    LET m == MemberList(e)
        firsts == {k \in 1..Len(m) :
                      InInput(m[k]) /\ \A j \in 1..(k - 1) : m[j] # m[k]}
        picked == SelectSeq([k \in 1..Len(m) |-> k], LAMBDA k : k \in firsts)
    IN [k \in 1..Len(picked) |-> PositionOf(m[picked[k]])]

HasRule(i) == InCardDomains(DomainOf(states_json[i]))

IdsOf(positions) ==
    [k \in 1..Len(positions) |-> states_json[positions[k]].entity_id]

\* The identifiers of the members that have no card rule.
CardlessIds(e) ==
    IdsOf(SelectSeq(EncounteredMembers(e), LAMBDA i : ~HasRule(i)))

\* The cards of the members in positions, one member after the other.
RECURSIVE CardsOfMembers(_)
CardsOfMembers(positions) ==
    IF positions = <<>> THEN <<>>
    ELSE LET r == Card_from_config(Head(positions), {})
         IN (IF IsNone(r.ret) THEN <<>>
             ELSE IF IsList(r.ret) THEN r.ret[2]
             ELSE <<r.ret[2]>>) \o CardsOfMembers(Tail(positions))

RuleMembers(e) == SelectSeq(EncounteredMembers(e), LAMBDA i : HasRule(i))

IsEntitiesCardListing(c, ids) ==
    /\ c.val["type"] = Str(<<"entities">>)
    /\ Contains(c.keys, "entities")
    /\ c.val["entities"] = List(ids)

DocViews == IF Contains(doc.keys, "views") THEN doc.val["views"][2] ELSE <<>>

ViewCards(v) == IF Contains(v.keys, "cards") THEN v.val["cards"][2] ELSE <<>>

HOME == Str(<<"Home">>)

\* cards is the entities card listing cardless, if any is listed, then the
\* cards others.
CardsAre(cards, cardless, others) ==
    IF cardless = <<>> THEN cards = others
    ELSE /\ Len(cards) = 1 + Len(others)
         /\ IsEntitiesCardListing(cards[1], cardless)
         /\ SubSeq(cards, 2, Len(cards)) = others

\* C1: a view group converted to a View lists its members without a card
\* rule, in encounter order, in one entities card that comes first among the
\* cards of the view, before the cards of the other members.
C1_CardlessFirstInView ==
    Built =>
        \A i \in Positions :
            ViewFlagged(states_json[i]) =>
                LET r == View_from_group_config(i)
                    cardless == CardlessIds(states_json[i])
                    others == CardsOfMembers(RuleMembers(states_json[i]))
                IN r.error = "none" =>
                    CardsAre(ViewCards(r.ret[2]), cardless, others)

\* The view of the group [camera.front, light.kitchen] in the document: the
\* entities card of light.kitchen, then the picture-entity card.
C1_Witness ==
    /\ pc = "done"
    /\ \E i \in Positions :
         /\ ViewFlagged(states_json[i])
         /\ MemberList(states_json[i]) = <<CAMERA, LIGHT>>
    /\ \E k \in 1..Len(DocViews) :
         LET cards == ViewCards(DocViews[k])
         IN /\ Len(cards) = 2
            /\ IsEntitiesCardListing(cards[1], <<LIGHT>>)
            /\ cards[2].val["type"] = Str(<<"picture-entity">>)
            /\ cards[2].val["entity"] = Str(CAMERA)

\* C2: a non-view group converted as a member gives its primary entities
\* card, listing the members without a card rule in encounter order, then
\* the cards of its other members in encounter order; without such members
\* it gives the cards of the other members alone.
C2_PrimaryThenExtras ==
    Built =>
        \A i \in Positions :
            (IsGroup(states_json[i]) /\ ~ViewFlagged(states_json[i])) =>
                LET r == Card_from_config(i, {})
                    cardless == CardlessIds(states_json[i])
                    extras == CardsOfMembers(RuleMembers(states_json[i]))
                IN r.error = "none" =>
                    /\ IsList(r.ret)
                    /\ CardsAre(r.ret[2], cardless, extras)

\* The group [switch.a, camera.front] converted into a view of the
\* document: its primary card of switch.a, then the picture-entity card.
C2_Witness ==
    /\ pc = "done"
    /\ \E i \in Positions :
         /\ IsGroup(states_json[i]) /\ ~ViewFlagged(states_json[i])
         /\ MemberList(states_json[i]) = <<SWITCH, CAMERA>>
    /\ \E k \in 1..Len(DocViews) :
         LET cards == ViewCards(DocViews[k])
         IN \E j \in 1..(Len(cards) - 1) :
              /\ IsEntitiesCardListing(cards[j], <<SWITCH>>)
              /\ Contains(cards[j].keys, "show_header_toggle")
              /\ cards[j + 1].val["type"] = Str(<<"picture-entity">>)
              /\ j + 1 = Len(cards)

\* The cards the conversion of the group at position i gives: those of its
\* View when it is a view group, those of its card list otherwise.
GroupCards(i) ==
    IF ViewFlagged(states_json[i])
    THEN LET r == View_from_group_config(i)
         IN [error |-> r.error,
             cards |-> IF r.error = "none" THEN ViewCards(r.ret[2]) ELSE <<>>]
    ELSE LET r == Card_from_config(i, {})
         IN [error |-> r.error,
             cards |-> IF r.error = "none" THEN r.ret[2] ELSE <<>>]

\* C3: a view group found among the members of another group gives that
\* group no card and no entity reference, an error is logged for it, and
\* the other members are converted all the same.
C3_NestedViewDiscarded ==
    pc = "done" =>
        \A i \in Positions :
            LET e == states_json[i]
                nested == SelectSeq(EncounteredMembers(e),
                                    LAMBDA m : ViewFlagged(states_json[m]))
                kept == SelectSeq(RuleMembers(e),
                                  LAMBDA m : ~ViewFlagged(states_json[m]))
            IN (IsGroup(e) /\ nested # <<>>) =>
                  /\ ViewFlagged(e) => log # <<>>
                  /\ GroupCards(i).error = "none" =>
                        CardsAre(GroupCards(i).cards, CardlessIds(e),
                                 CardsOfMembers(kept))

\* An identifier is listed by the entities field of a card of the document.
OccursInDoc(id) ==
    \E k \in 1..Len(DocViews) :
        \E c \in 1..Len(ViewCards(DocViews[k])) :
            LET card == ViewCards(DocViews[k])[c]
            IN /\ Contains(card.keys, "entities")
               /\ Contains(card.val["entities"][2], id)

\* C4: an identifier listed by a group or a history_graph and absent from
\* the registry is reported by a diagnostic and occurs nowhere in the
\* document.
C4_DanglingReported ==
    pc = "done" =>
        \A i \in Positions :
            \A k \in 1..Len(MemberList(states_json[i])) :
                LET id == MemberList(states_json[i])[k]
                IN ~InInput(id) => (log # <<>> /\ ~OccursInDoc(id))

NoViewGroups == \A i \in Positions : ~ViewFlagged(states_json[i])

RuleEntityExists ==
    \E i \in Positions : WellFormedId(states_json[i]) /\ HasRule(i)

\* C6: without view groups the document has the one view Home when an
\* entity of a card domain exists; when none exists it has no views, and
\* the conversion does not fail.
C6_HomeWhenNoViews ==
    NoViewGroups =>
        /\ pc = "done" =>
              IF RuleEntityExists
              THEN /\ Len(DocViews) = 1
                   /\ DocViews[1].val["title"] = HOME
              ELSE ~Contains(doc.keys, "views")
        /\ ~RuleEntityExists => pc # "raised"

\* A document with the one view Home, made for an input without view groups.
C6_Witness ==
    /\ pc = "done"
    /\ NoViewGroups
    /\ RuleEntityExists
    /\ Len(DocViews) = 1
    /\ DocViews[1].val["title"] = HOME
    /\ Len(ViewCards(DocViews[1])) > 0

\* C7: the document holds no Home view without cards.
C7_NoEmptyHome ==
    pc = "done" =>
        \A k \in 1..Len(DocViews) :
            DocViews[k].val["title"] = HOME =>
                Len(ViewCards(DocViews[k])) > 0

\* The view groups of the input, in input order.
ViewGroups ==
    SelectSeq([i \in Positions |-> i],
              LAMBDA i : ViewFlagged(states_json[i]))

IsDefaultView(i) == states_json[i].entity_id = DEFAULT_VIEW

HasDefaultView == \E k \in 1..Len(ViewGroups) : IsDefaultView(ViewGroups[k])

\* The view of a view group, as far as the document needs to tell it apart.
IsViewOf(v, i) ==
    /\ v.val["title"] = states_json[i].attributes["friendly_name"]
    /\ v = View_from_group_config(i).ret[2]

\* The views are those of the view groups in positions, in that order.
ViewsAre(vs, positions) ==
    /\ Len(vs) = Len(positions)
    /\ \A k \in 1..Len(vs) : IsViewOf(vs[k], positions[k])

\* C8: the views of the document are the default view, when there is one
\* (that of the view group default_view, else the Home view if one was
\* made), then one view for each other view group, in input order.
C8_ViewOrder ==
    pc = "done" =>
        LET first == SelectSeq(ViewGroups, IsDefaultView)
            rest == SelectSeq(ViewGroups, LAMBDA i : ~IsDefaultView(i))
        IN IF HasDefaultView THEN ViewsAre(DocViews, first \o rest)
           ELSE \/ ViewsAre(DocViews, rest)
                \/ /\ Len(DocViews) = 1 + Len(rest)
                   /\ DocViews[1].val["title"] = HOME
                   /\ ViewsAre(Tail(DocViews), rest)

\* Three view groups with default_view the last of the input: its view is
\* the first of the document and the two others keep their input order.
C8_Witness ==
    /\ pc = "done"
    /\ Len(ViewGroups) = 3
    /\ IsDefaultView(ViewGroups[3])
    /\ Len(DocViews) = 3
    /\ IsViewOf(DocViews[1], ViewGroups[3])
    /\ IsViewOf(DocViews[2], ViewGroups[1])
    /\ IsViewOf(DocViews[3], ViewGroups[2])

HasHomeView == \E k \in 1..Len(DocViews) : DocViews[k].val["title"] = HOME

\* The views of the document are those of the view groups and no other.
OnlyGroupViews ==
    /\ Len(DocViews) = Len(ViewGroups)
    /\ \A j \in 1..Len(ViewGroups) :
          \E k \in 1..Len(DocViews) : IsViewOf(DocViews[k], ViewGroups[j])

\* C9 as stated: a Home view is made only when no group is view-flagged;
\* with a view group the views are those of the view groups and no Home.
C9_HomeOnlyWithoutViews ==
    pc = "done" =>
        /\ HasHomeView => NoViewGroups
        /\ ~NoViewGroups => OnlyGroupViews

\* C9 amended: a Home view is made only when no view group is named
\* default_view; with the view group default_view the views are those of
\* the view groups and there is no Home view.
C9_HomeOnlyWithoutDefaultView ==
    pc = "done" =>
        /\ HasHomeView => ~HasDefaultView
        /\ HasDefaultView => OnlyGroupViews

\* The view group default_view beside a camera: the document has the view
\* of the group alone, and the camera has no Home view to show in.
C9_Witness ==
    /\ pc = "done"
    /\ HasDefaultView
    /\ \E i \in Positions : states_json[i].entity_id = CAMERA
    /\ Len(DocViews) = Len(ViewGroups)
    /\ ~HasHomeView

\* A record without the separator in its identifier, or a history_graph
\* without its entity_id list.
Malformed(e) ==
    \/ ~WellFormedId(e)
    \/ /\ DomainOf(e) = <<"history", "_", "graph">>
       /\ "entity_id" \notin DOMAIN e.attributes

\* C10: with a malformed entity in the input the conversion still returns a
\* document, and a diagnostic is recorded for the entity.
C10_MalformedRecovered ==
    (\E i \in Positions : Malformed(states_json[i])) =>
        /\ pc # "raised"
        /\ pc = "done" => log # <<>>

\* C11: the conversion of every input ends with a document, also when the
\* member lists of the groups are cyclic: it never ends by raising.
C11_AlwaysReturnsDocument == pc # "raised"

\* None, an empty string or an empty list.
EmptyValue(v) ==
    \/ v[1] = "none"
    \/ v[1] \in {"str", "list"} /\ v[2] = <<>>

\* No field of the node n holds an empty value.
NoEmptyField(n) == \A k \in 1..Len(n.keys) : ~EmptyValue(n.val[n.keys[k]])

\* C12: in the document returned, neither the root, nor a view, nor a card
\* has a field whose value is null, an empty string or an empty collection.
C12_NoEmptyFields ==
    pc = "done" =>
        /\ NoEmptyField(doc)
        /\ \A k \in 1..Len(DocViews) :
              /\ NoEmptyField(DocViews[k])
              /\ \A c \in 1..Len(ViewCards(DocViews[k])) :
                    NoEmptyField(ViewCards(DocViews[k])[c])

\* C13: when the document is returned every input record is as it was
\* given: no key was added to it or to its attributes, no value changed.
C13_InputUnchanged == pc = "done" => states_json = given_json

(***************************************************************************)
(* Named entities, and the conversion of the same input once more          *)
(***************************************************************************)
\* The friendly_name attribute of a record: absent, empty, or a name.
NameChoices ==
    {<<>>, [friendly_name |-> Str(<<>>)], [friendly_name |-> Str(<<"porch">>)]}

\* The record e with the attribute mapping extra added to its attributes.
WithAttributes(e, extra) ==
    IF DOMAIN extra = {} THEN e
    ELSE [e EXCEPT !.attributes = extra @@ e.attributes]

\* The lists of records sj with every choice of friendly_name attributes.
WithNames(sj) ==
    {[i \in 1..Len(sj) |-> WithAttributes(sj[i], names[i])] :
        names \in [1..Len(sj) -> NameChoices]}

\* The entities put beside the group: two of a card domain, one of none.
SingleEntities == {CAMERA, GRAPH, LIGHT}

\* One view group and one entity, in either order; the group lists the
\* entity or an identifier of no record, never a group.
MinimalInputs ==
    UNION {WithNames(sj) :
        sj \in UNION {
            {r \in Records(ids, MaxRefs, FALSE, {ids[1], ids[2], GHOST}
                                                  \ GroupIds) :
                \A i \in 1..Len(r) :
                    r[i].entity_id \in GroupIds =>
                        "view" \in DOMAIN r[i].attributes} :
            ids \in UNION {{<<g, e>>, <<e, g>>} :
                             g \in GroupIds, e \in SingleEntities}}}

InitTwice ==
    /\ states_json \in MinimalInputs
    /\ title \in Titles
    /\ pc = "start"
    /\ all_entities = EmptyOD
    /\ states = EmptyOD
    /\ views = EmptyOD
    /\ doc = NewNode("Lovelace")
    /\ error = "none"
    /\ log = <<>>
    /\ node = NoNode
    /\ first_set = <<>>
    /\ given_json = states_json
    /\ docs = <<>>

\* Lovelace(states_json) is called once more: with the very list of records
\* the conversion before has worked on (reused), or with the input as it
\* was first given.
Again ==
    /\ pc = "done"
    /\ Len(docs) < MaxRuns - 1
    /\ \E reused \in BOOLEAN :
          /\ docs' = Append(docs, [doc |-> doc, reused |-> reused])
          /\ states_json' = IF reused THEN states_json ELSE given_json
    /\ pc' = "start"
    /\ UNCHANGED <<title, all_entities, states, views, doc, error, log, node,
                   first_set, given_json>>

NextTwice == Next \/ Again

SpecTwice == InitTwice /\ [][NextTwice]_vars

\* The name made from an object id: "_" replaced by " ", each word
\* capitalised.
Synthesized(object_id) == Str(Title(Replace(object_id)))

\* The display name the entity of a record given as e is to have.
DisplayName(e) ==
    IF "friendly_name" \in DOMAIN e.attributes
       /\ e.attributes["friendly_name"] # Str(<<>>)
    THEN e.attributes["friendly_name"]
    ELSE Synthesized(Split1(e.entity_id)[2])

\* C14: the display name of every entity in the registry, and the title of
\* the view of every view group, is the friendly_name given with the record
\* when there is one and it is not empty, and else the name synthesized
\* from the object id.
C14_DisplayName ==
    Built =>
        \A i \in Positions :
            /\ states_json[i].attributes["friendly_name"]
                  = DisplayName(given_json[i])
            /\ ViewFlagged(states_json[i]) =>
                  LET r == View_from_group_config(i)
                  IN r.error = "none" =>
                        /\ Contains(r.ret[2].keys, "title")
                        /\ r.ret[2].val["title"] = DisplayName(given_json[i])

\* The input given is one view group and one entity of a domain with a
\* card rule, and the group lists no group.
Minimal ==
    /\ Len(given_json) = 2
    /\ Len(ViewGroups) = 1
    /\ \E i \in Positions : ~IsGroup(given_json[i]) /\ HasRule(i)
    /\ \A i \in Positions :
          \A k \in 1..Len(MemberList(given_json[i])) :
              Split1(MemberList(given_json[i])[k])[1] # GROUP

\* C15: a minimal input converted again gives the document it gave before,
\* whether the records are passed as first given or as the conversion
\* before left them.
C15_SameDocumentAgain ==
    (pc = "done" /\ Minimal) =>
        \A k \in 1..Len(docs) : docs[k].doc = doc

\* A second document made from the records the first conversion had worked
\* on, with a view holding a card, the same as the first document.
C15_Witness ==
    /\ pc = "done"
    /\ Minimal
    /\ Len(docs) = 1
    /\ docs[1].reused
    /\ docs[1].doc = doc
    /\ \E k \in 1..Len(DocViews) : Len(ViewCards(DocViews[k])) > 0

(***************************************************************************)
(* Field ordering: a node is constructed and fields are then inserted      *)
(***************************************************************************)
CardClasses == DOMAIN CARD_TYPE

NodeClasses ==
    CardClasses \cup {"Lovelace", "View", "Entity", "Resource", "CustomCard",
                      "CustomCardOther"}

\* The key_order the instance of a class ends up with.
KeyOrderOf(cls) ==
    CASE cls = "CustomCard" -> CUSTOM_CARDS["monster_card"]
      [] cls = "CustomCardOther" -> <<"type", "...">>
      [] OTHER -> KEY_ORDER[cls]

Construct(cls, kwargs) ==
    CASE cls \in CardClasses -> NewCard(cls, kwargs)
      [] cls = "Resource" -> NewResource(kwargs)
      [] cls = "CustomCard" -> NewCustomCard("monster_card", kwargs)
      [] cls = "CustomCardOther" -> NewCustomCard("other", kwargs)
      [] cls = "Lovelace" -> NewLovelace(None)
      [] OTHER -> NewPlain(cls, kwargs)

\* The keys tried on a node: those of its schema and two free-form ones.
FieldKeys(ko) ==
    ({ko[i] : i \in 1..Len(ko)} \ {DELIM}) \cup {"x", "y"}

\* The keys the classes fill through add_item (add_card, add_entity, ...).
CollectionKeys ==
    {"cards", "entities", "views", "resources", "elements", "state_filter"}

NoConversion ==
    /\ states_json = <<>>
    /\ title = None
    /\ pc = "node"
    /\ all_entities = EmptyOD
    /\ states = EmptyOD
    /\ views = EmptyOD
    /\ doc = NewNode("Lovelace")
    /\ error = "none"
    /\ log = <<>>
    /\ given_json = <<>>
    /\ docs = <<>>

TypeOK == pc \in {"start", "views", "rest", "done", "raised", "node"}

\* The keys of a node in the order they were first set and not deleted.
FirstSetAfter(n, before) ==
    SelectSeq(before, LAMBDA k : Contains(n.keys, k))
        \o SelectSeq(n.keys, LAMBDA k : ~Contains(before, k))

\* The keys set while a node of class cls is constructed, in the order of
\* the assignments of its __init__.
ConstructionSets(cls, kwargs) ==
    LET given == [i \in 1..Len(kwargs) |-> kwargs[i][1]]
    IN CASE cls \in CardClasses \cup {"CustomCard", "CustomCardOther"} ->
               <<"type">> \o Remove(given, "type")
         [] cls = "Resource" -> given \o Remove(<<"type">>, "type") \o
               (IF Contains(given, "type") THEN <<>> ELSE <<"type">>)
         [] cls = "Lovelace" -> <<"title">>
         [] OTHER -> given

NodeInit ==
    /\ NoConversion
    /\ \E cls \in NodeClasses :
         \E kwargs \in {<<>>} \cup
                 {<<(<<k, v>>)>> : k \in FieldKeys(KeyOrderOf(cls)),
                                   v \in {None, Str(<<"v">>)}} :
            /\ cls = "Lovelace" => kwargs = <<>>
            /\ node = Construct(cls, kwargs)
            /\ first_set = SelectSeq(ConstructionSets(cls, kwargs),
                                     LAMBDA k : Contains(node.keys, k))

\* node[key] = value
NodeSetItem ==
    /\ pc = "node"
    /\ \E key \in FieldKeys(node.key_order) :
         /\ Contains(node.keys, key) \/ Len(node.keys) < MaxKeys
         /\ node' = SetItem(node, key, Str(<<"w">>))
         /\ first_set' = FirstSetAfter(node', first_set)
    /\ UNCHANGED <<states_json, title, pc, all_entities, states, views, doc,
                   error, log, given_json, docs>>

\* node.add_item(key, item)
NodeAddItem ==
    /\ pc = "node"
    /\ \E key \in FieldKeys(node.key_order) \cap CollectionKeys :
         \E item \in {None, Str(<<"i">>), List(<<Str(<<"i">>)>>)} :
            /\ Contains(node.keys, key) \/ Len(node.keys) < MaxKeys
            /\ ~(Contains(node.keys, key) /\ ~IsList(node.val[key]))
            /\ Len(IF Contains(node.keys, key) THEN node.val[key][2]
                   ELSE <<>>) < 2
            /\ node' = add_item(node, key, item)
            /\ first_set' = FirstSetAfter(node', first_set)
    /\ UNCHANGED <<states_json, title, pc, all_entities, states, views, doc,
                   error, log, given_json, docs>>

NodeNext == NodeSetItem \/ NodeAddItem

NodeSpec == NodeInit /\ [][NodeNext]_vars

\* The fields of key_order before the delimiter, and those after it.
HeadFields(ko) ==
    IF Contains(ko, DELIM) THEN SubSeq(ko, 1, Index(ko, DELIM) - 1) ELSE ko

TailFields(ko) ==
    IF Contains(ko, DELIM) THEN SubSeq(ko, Index(ko, DELIM) + 1, Len(ko))
    ELSE <<>>

\* Head fields present, then the other fields as first set, then the tail
\* fields present.
ExpectedOrder(n, ko, set_order) ==
    SelectSeq(HeadFields(ko), LAMBDA k : Contains(n.keys, k))
        \o SelectSeq(set_order,
                     LAMBDA k : ~Contains(HeadFields(ko), k)
                                /\ ~Contains(TailFields(ko), k))
        \o SelectSeq(TailFields(ko), LAMBDA k : Contains(n.keys, k))

\* C5: the key order of a node is its present head fields in schema order,
\* then every other field in the order it was first set, then its present
\* tail fields in schema order, after construction and any insertions.
C5_FieldOrder ==
    pc = "node" =>
        node.keys = ExpectedOrder(node, node.key_order, first_set)

\* A node holding two head fields set in reverse schema order, a free-form
\* field and a tail field set before the free-form one.
C5_Witness ==
    /\ pc = "node"
    /\ node.cls = "EntitiesCard"
    /\ first_set = <<"type", "entities", "x", "title">>
    /\ node.keys = <<"type", "title", "x", "entities">>

====
